---- MODULE Spec2Model ----
(***************************************************************************)
(* Model of the Tokemak risc0 demo: the yield aggregator                   *)
(* calculate_dex_stats (tokemak/src/lib.rs) and the block-number loop of   *)
(* the host (host/src/main.rs).  One behaviour is one run of one of the    *)
(* two programs; every loop iteration and every assertion is one step.     *)
(***************************************************************************)
EXTENDS Integers, Sequences, FiniteSets, TLC

(***************************************************************************)
(* Program constants                                                       *)
(***************************************************************************)
DAY_IN_SECONDS == 24 * 60 * 60
BLOCK_GRANULARITY == DAY_IN_SECONDS \div 12
BLOCKS_TO_QUERY == (3 * DAY_IN_SECONDS) \div 12
\* DAY_IN_SECONDS * 365, the dividend of the annualizer
SecondsPerYear == DAY_IN_SECONDS * 365
\* the units argument of both u256_to_f64 calls
Units == 18

(***************************************************************************)
(* Bounds of the model                                                     *)
(***************************************************************************)
\* longest generated series
MaxLen == 4
\* largest stride (skip); 0 is included, usize allows it
MaxSkip == 3
\* every modelled lst_backing is a multiple of 10^BackingZeros wei
BackingZeros == 16
\* the host's head block ranges over BLOCKS_TO_QUERY - 2 .. BLOCKS_TO_QUERY + MaxHeadOffset
MaxHeadOffset == 12

\* gaps between consecutive block numbers of a generated series
BlockDeltas == {-1, 0, BLOCK_GRANULARITY - 1, BLOCK_GRANULARITY, BLOCK_GRANULARITY + 1}
\* gaps between consecutive timestamps of a generated series
TimeDeltas == {-DAY_IN_SECONDS, 0, DAY_IN_SECONDS}
\* backing values, in units of 10^BackingZeros wei (100.00 and 100.25)
BackingValues == {10000, 10025}
StartBlock == BLOCK_GRANULARITY

(***************************************************************************)
(* Numbers.  A U256 n * 10^zeros is [digits |-> n, zeros |-> zeros].       *)
(* A backing f64 is the decimal m * 10^(-e) that format_units prints and   *)
(* parse reads.  The f64 results of the arithmetic are fixed-point numbers *)
(* (hi * Limb + lo) * 10^(-12) with 0 <= lo < Limb and hi any integer      *)
(* (floor representation), or NaN.                                         *)
(***************************************************************************)
Limb == 1000000
Digit == 1000

F64(h, l) == [nan |-> FALSE, hi |-> h, lo |-> l]
NaN == [nan |-> TRUE, hi |-> 0, lo |-> 0]
Zero == F64(0, 0)

RECURSIVE Pow10(_)
Pow10(k) == IF k <= 0 THEN 1 ELSE 10 * Pow10(k - 1)

Min(a, b) == IF a < b THEN a ELSE b

\* n / d for integers n >= 0, d > 0, truncated to twelve decimals
Quot(n, d) ==
    LET q0 == n \div d
        r0 == n % d
        d1 == (r0 * Digit) \div d
        r1 == (r0 * Digit) % d
        d2 == (r1 * Digit) \div d
        r2 == (r1 * Digit) % d
        d3 == (r2 * Digit) \div d
        r3 == (r2 * Digit) % d
        d4 == (r3 * Digit) \div d
    IN  F64(q0 * Limb + d1 * Digit + d2, d3 * Digit + d4)

\* a / b for two backing decimals (b # 0)
F64Div(a, b) ==
    LET c == Min(a.e, b.e)
    IN  Quot(a.m * Pow10(b.e - c), b.m * Pow10(a.e - c))

\* x - 1.0
F64SubOne(x) == F64(x.hi - Limb, x.lo)

\* x * k for an integer k >= 0
F64MulInt(x, k) ==
    LET p == x.lo * k
    IN  F64(x.hi * k + (p \div Limb), p % Limb)

\* x + y
F64Add(x, y) ==
    LET s == x.lo + y.lo
    IN  F64(x.hi + y.hi + (s \div Limb), s % Limb)

\* x - y
F64Sub(x, y) ==
    LET s == x.lo - y.lo
    IN  F64(x.hi - y.hi + (s \div Limb), s % Limb)

\* x / (k as f64) for an integer k >= 0; 0.0 / 0.0 is NaN.  A non-zero x
\* over 0.0 (an infinity) does not occur: total is 0.0 whenever k = 0.
F64DivInt(x, k) ==
    IF k = 0 THEN NaN
    ELSE F64(x.hi \div k, (((x.hi % k) * Limb) + x.lo) \div k)

u256_to_f64(value, units) == [m |-> value.digits, e |-> units - value.zeros]

(***************************************************************************)
(* u64 subtraction item.timestamp - prior_timestamp.  The difference is    *)
(* [wrapped |-> FALSE, v |-> d] for d >= 0; an underflow wraps to          *)
(* 2^64 - v, written [wrapped |-> TRUE, v |-> v].                          *)
(***************************************************************************)
WrappingSub(a, b) ==
    IF a >= b THEN [wrapped |-> FALSE, v |-> a - b]
    ELSE [wrapped |-> TRUE, v |-> b - a]

\* ((DAY_IN_SECONDS * 365) / time_delta_seconds), u64 division; a wrapped
\* delta 2^64 - v exceeds the dividend for every v the model can build
Annualizer(td) ==
    IF td.wrapped THEN 0 ELSE SecondsPerYear \div td.v

\* (current / prior_backing - 1.0) * annualizer
Change(current, prior, ann) ==
    F64MulInt(F64SubOne(F64Div(current, prior)), ann)

(***************************************************************************)
(* Conditions of the code                                                  *)
(***************************************************************************)
\* assert!(input.len() > 0, ...)
InputLongEnoughNonStrict(n) == n >= 0
InputLongEnough(n) == n > 0

\* number of items of input[1..]
PairsToValidate(n) == n - 1

\* assert!(item.block_number > prior_block_number, "list not sorted")
IsSortedNonStrict(cur, prior) == cur >= prior
IsSorted(cur, prior) == cur > prior

\* assert!(block_delta == BLOCK_GRANULARITY, ...)
IsGranularWithTolerance(block_delta) ==
    /\ block_delta >= BLOCK_GRANULARITY - 1
    /\ block_delta <= BLOCK_GRANULARITY + 1
IsGranular(block_delta) == block_delta = BLOCK_GRANULARITY

\* if index % skip == 0
KeepsLastOfGroup(idx, k) == (idx + 1) % k = 0
Keeps(idx, k) == idx % k = 0

Reverse(s) == [i \in 1..Len(s) |-> s[Len(s) + 1 - i]]

\* resampled.reverse()
RestoreForgotten(s) == s
Restore(s) == Reverse(s)

\* (resampled.len() - 1) as f64
AverageDivisorLen(r) == Len(r)
AverageDivisor(r) == Len(r) - 1

VARIABLES
    pc,                 \* position of the running program
    panic_msg,          \* message of the panic or error that ended the run
    overflow_checks,    \* build profile: arithmetic overflow panics (debug) or wraps (release)
    input, skip,        \* arguments of calculate_dex_stats
    index,              \* enumerate() index of the validation and resampling loops
    resampled,
    pos,                \* position of the aggregation loop in resampled (0-based)
    total, prior_backing, prior_timestamp,
    time_delta_seconds, annualizer,
    base_yield,         \* DexStatsOutput.base_yield once pc = "done"
    head_block_num, query_block_num, headers_from_query, inputs, block_num

calcVars == <<input, skip, index, resampled, pos, total, prior_backing,
              prior_timestamp, time_delta_seconds, annualizer, base_yield>>
hostVars == <<head_block_num, query_block_num, headers_from_query, inputs, block_num>>
vars == <<pc, panic_msg, overflow_checks, calcVars, hostVars>>

(***************************************************************************)
(* Inputs                                                                  *)
(***************************************************************************)
Obs(ts, bn, bk) ==
    [timestamp |-> ts, block_number |-> bn,
     lst_backing |-> [digits |-> bk, zeros |-> BackingZeros]]

RECURSIVE SumTo(_, _)
SumTo(f, k) == IF k = 0 THEN 0 ELSE f[k] + SumTo(f, k - 1)

StartTimestamp == 1716129570

\* series of n observations with block gaps bd, timestamp gaps td and backings bk
BuildSeries(n, bd, td, bk) ==
    [i \in 1..n |-> Obs(StartTimestamp + SumTo(td, i - 1), StartBlock + SumTo(bd, i - 1), bk[i])]

\* series with arbitrary block gaps (daily timestamps, flat backing) and
\* series with regular block gaps (arbitrary timestamp gaps and backings)
InputSeries ==
    UNION { { BuildSeries(n, bd, [i \in 1..(n - 1) |-> DAY_IN_SECONDS], [i \in 1..n |-> 10000]) :
                bd \in [1..(n - 1) -> BlockDeltas] }
            \cup
            { BuildSeries(n, [i \in 1..(n - 1) |-> BLOCK_GRANULARITY], td, bk) :
                td \in [1..(n - 1) -> TimeDeltas], bk \in [1..n -> BackingValues] }
          : n \in 0..MaxLen }

\* tests::build_input(1716129570, [100.0, 100.01, 100.10, 100.15, 100.25])
TestBacking == <<10000, 10001, 10010, 10015, 10025>>
TestInput ==
    [i \in 1..Len(TestBacking) |->
        [timestamp |-> StartTimestamp + (i - 1) * DAY_IN_SECONDS,
         block_number |-> (i - 1) * BLOCK_GRANULARITY,
         lst_backing |-> [digits |-> TestBacking[i], zeros |-> 16]]]

NoDelta == [wrapped |-> FALSE, v |-> 0]
NoBacking == [m |-> 0, e |-> 0]
NoRange == [first |-> 0, last |-> -1]

CalcLocalsInit ==
    /\ index = 0
    /\ resampled = <<>>
    /\ pos = 0
    /\ total = Zero
    /\ prior_backing = NoBacking
    /\ prior_timestamp = 0
    /\ time_delta_seconds = NoDelta
    /\ annualizer = 0
    /\ base_yield = Zero

HostLocalsInit ==
    /\ query_block_num = NoDelta
    /\ headers_from_query = NoRange
    /\ inputs = <<>>
    /\ block_num = 0

\* a call calculate_dex_stats(input, skip)
InitCalc ==
    /\ pc = "start"
    /\ input \in InputSeries \cup {TestInput}
    /\ skip \in 0..MaxSkip
    /\ CalcLocalsInit
    /\ head_block_num = 0
    /\ HostLocalsInit

\* a run of the host's main with head block head_block_num
InitHost ==
    /\ pc = "host_start"
    /\ head_block_num \in (BLOCKS_TO_QUERY - 2)..(BLOCKS_TO_QUERY + MaxHeadOffset)
    /\ HostLocalsInit
    /\ input = <<>>
    /\ skip = 1
    /\ CalcLocalsInit

Init ==
    /\ panic_msg = ""
    /\ overflow_checks \in BOOLEAN
    /\ (InitCalc \/ InitHost)

(***************************************************************************)
(* calculate_dex_stats                                                     *)
(***************************************************************************)
Panic(msg) ==
    /\ pc' = "panic"
    /\ panic_msg' = msg

\* assert!(input.len() > 0, "input data not long enough")
AssertInputLen ==
    /\ pc = "start"
    /\ IF InputLongEnough(Len(input))
       THEN pc' = "validate" /\ panic_msg' = panic_msg
       ELSE Panic("input data not long enough")
    /\ UNCHANGED <<overflow_checks, calcVars, hostVars>>

\* one iteration of for (index, item) in input[1..].iter().enumerate()
ValidatePair ==
    /\ pc = "validate"
    /\ Len(input) >= 1
    /\ index < PairsToValidate(Len(input))
    /\ LET item == input[index + 2]
           prior_block_number == input[index + 1].block_number
       IN  IF ~IsSorted(item.block_number, prior_block_number)
           THEN Panic("list not sorted") /\ index' = index
           ELSE IF ~IsGranular(item.block_number - prior_block_number)
           THEN Panic("provided data not at correct granularity") /\ index' = index
           ELSE pc' = pc /\ panic_msg' = panic_msg /\ index' = index + 1
    /\ UNCHANGED <<overflow_checks, input, skip, resampled, pos, total, prior_backing,
                   prior_timestamp, time_delta_seconds, annualizer, base_yield, hostVars>>

\* the validation loop ends (the slice input[1..] of an empty input panics)
ValidateEnd ==
    /\ pc = "validate"
    /\ \/ Len(input) = 0
       \/ index >= PairsToValidate(Len(input))
    /\ IF Len(input) = 0
       THEN Panic("range start index 1 out of range for slice of length 0") /\ index' = index
       ELSE pc' = "resample" /\ panic_msg' = panic_msg /\ index' = 0
    /\ UNCHANGED <<overflow_checks, input, skip, resampled, pos, total, prior_backing,
                   prior_timestamp, time_delta_seconds, annualizer, base_yield, hostVars>>

\* one iteration of for (index, item) in input.iter().rev().enumerate()
ResampleStep ==
    /\ pc = "resample"
    /\ index < Len(input)
    /\ IF skip = 0
       THEN /\ Panic("attempt to calculate the remainder with a divisor of zero")
            /\ UNCHANGED <<index, resampled>>
       ELSE /\ pc' = pc /\ panic_msg' = panic_msg
            /\ index' = index + 1
            /\ resampled' = IF Keeps(index, skip)
                            THEN Append(resampled, input[Len(input) - index])
                            ELSE resampled
    /\ UNCHANGED <<overflow_checks, input, skip, pos, total, prior_backing,
                   prior_timestamp, time_delta_seconds, annualizer, base_yield, hostVars>>

\* resampled.reverse()
ResampleReverse ==
    /\ pc = "resample"
    /\ index >= Len(input)
    /\ resampled' = Restore(resampled)
    /\ pc' = "assert_resampled"
    /\ UNCHANGED <<panic_msg, overflow_checks, input, skip, index, pos, total, prior_backing,
                   prior_timestamp, time_delta_seconds, annualizer, base_yield, hostVars>>

\* assert!(resampled.len() > 0, ...) and the initialisation of the aggregation
AssertResampledLen ==
    /\ pc = "assert_resampled"
    /\ IF Len(resampled) > 0
       THEN /\ pc' = "aggregate" /\ panic_msg' = panic_msg
            /\ total' = Zero
            /\ prior_backing' = u256_to_f64(resampled[1].lst_backing, Units)
            /\ prior_timestamp' = resampled[1].timestamp
            /\ pos' = 1
       ELSE /\ Panic("resampled data insufficient")
            /\ UNCHANGED <<total, prior_backing, prior_timestamp, pos>>
    /\ UNCHANGED <<overflow_checks, input, skip, index, resampled,
                   time_delta_seconds, annualizer, base_yield, hostVars>>

\* one iteration of for item in resampled[1..].iter()
AggregateStep ==
    /\ pc = "aggregate"
    /\ pos < Len(resampled)
    /\ LET item == resampled[pos + 1]
           td == WrappingSub(item.timestamp, prior_timestamp)
           ann == Annualizer(td)
           current == u256_to_f64(item.lst_backing, Units)
       IN  IF td.wrapped /\ overflow_checks
           THEN /\ Panic("attempt to subtract with overflow")
                /\ UNCHANGED <<pos, total, prior_backing, prior_timestamp,
                               time_delta_seconds, annualizer>>
           ELSE IF ~td.wrapped /\ td.v = 0
           THEN /\ Panic("attempt to divide by zero")
                /\ time_delta_seconds' = td
                /\ UNCHANGED <<pos, total, prior_backing, prior_timestamp, annualizer>>
           ELSE /\ pc' = pc /\ panic_msg' = panic_msg
                /\ time_delta_seconds' = td
                /\ annualizer' = ann
                /\ total' = F64Add(total, Change(current, prior_backing, ann))
                /\ prior_backing' = current
                /\ prior_timestamp' = item.timestamp
                /\ pos' = pos + 1
    /\ UNCHANGED <<overflow_checks, input, skip, index, resampled, base_yield, hostVars>>

\* let base_yield = total / (resampled.len() - 1) as f64; DexStatsOutput { base_yield }
Average ==
    /\ pc = "aggregate"
    /\ pos >= Len(resampled)
    /\ base_yield' = F64DivInt(total, AverageDivisor(resampled))
    /\ pc' = "done"
    /\ UNCHANGED <<panic_msg, overflow_checks, input, skip, index, resampled, pos, total,
                   prior_backing, prior_timestamp, time_delta_seconds, annualizer, hostVars>>

(***************************************************************************)
(* host main: the block numbers at which observation inputs are built      *)
(***************************************************************************)
\* block_num is yielded by (query_block_num..=head_block_num)
InQueryRangeExclusive(b, head) == b < head
InQueryRange(b, head) == b <= head

\* let query_block_num = head_block_num - BLOCKS_TO_QUERY (u64)
HostQueryBlock ==
    /\ pc = "host_start"
    /\ LET q == WrappingSub(head_block_num, BLOCKS_TO_QUERY)
       IN  IF q.wrapped /\ overflow_checks
           THEN /\ pc' = "host_panic"
                /\ panic_msg' = "attempt to subtract with overflow"
                /\ query_block_num' = query_block_num
           ELSE pc' = "host_headers" /\ panic_msg' = panic_msg /\ query_block_num' = q
    /\ UNCHANGED <<overflow_checks, calcVars, head_block_num, headers_from_query, inputs, block_num>>

\* headers_from_query: one header per block of query_block_num..=head_block_num;
\* a wrapped query_block_num lies above head_block_num and the range is empty
HostFetchHeaders ==
    /\ pc = "host_headers"
    /\ headers_from_query' = IF query_block_num.wrapped THEN NoRange
                             ELSE [first |-> query_block_num.v, last |-> head_block_num]
    /\ block_num' = IF query_block_num.wrapped THEN head_block_num + 1 ELSE query_block_num.v
    /\ pc' = "host_preflight"
    /\ UNCHANGED <<panic_msg, overflow_checks, calcVars, head_block_num, query_block_num, inputs>>

\* get_block_header fails or finds no block: main returns the error
HostFetchFails ==
    /\ pc = "host_headers"
    /\ ~query_block_num.wrapped
    /\ pc' = "host_err"
    /\ panic_msg' = "could not retrieve block"
    /\ UNCHANGED <<overflow_checks, calcVars, hostVars>>

\* one iteration of for block_num in (query_block_num..=head_block_num).step_by(BLOCK_GRANULARITY)
HostPreflight ==
    /\ pc = "host_preflight"
    /\ InQueryRange(block_num, head_block_num)
    /\ inputs' = Append(inputs, block_num)
    /\ block_num' = block_num + BLOCK_GRANULARITY
    /\ UNCHANGED <<pc, panic_msg, overflow_checks, calcVars, head_block_num, query_block_num,
                   headers_from_query>>

\* a provider, preflight or into_zkvm_input error inside the loop
HostPreflightFails ==
    /\ pc = "host_preflight"
    /\ InQueryRange(block_num, head_block_num)
    /\ pc' = "host_err"
    /\ panic_msg' = "preflight failed"
    /\ UNCHANGED <<overflow_checks, calcVars, hostVars>>

\* the loop is over: inputs and headers_from_query are written to the guest
HostExecute ==
    /\ pc = "host_preflight"
    /\ ~InQueryRange(block_num, head_block_num)
    /\ pc' = "host_exec"
    /\ UNCHANGED <<panic_msg, overflow_checks, calcVars, hostVars>>

Next ==
    \/ AssertInputLen
    \/ ValidatePair
    \/ ValidateEnd
    \/ ResampleStep
    \/ ResampleReverse
    \/ AssertResampledLen
    \/ AggregateStep
    \/ Average
    \/ HostQueryBlock
    \/ HostFetchHeaders
    \/ HostFetchFails
    \/ HostPreflight
    \/ HostPreflightFails
    \/ HostExecute

Spec == Init /\ [][Next]_vars

(***************************************************************************)
(* Properties                                                              *)
(***************************************************************************)
Returned == pc = "done"
\* the resampling loop and the reverse have run
Resampled ==
    \/ pc \in {"assert_resampled", "aggregate", "done"}
    \/ pc = "panic" /\ panic_msg \in {"attempt to subtract with overflow",
                                      "attempt to divide by zero",
                                      "resampled data insufficient"}
BlockGap(s, i) == s[i + 1].block_number - s[i].block_number
UnsortedAt(s, i) == s[i + 1].block_number <= s[i].block_number
OffGranularityAt(s, i) == BlockGap(s, i) # BLOCK_GRANULARITY
HasUnsortedPair(s) == \E i \in 1..(Len(s) - 1) : UnsortedAt(s, i)
HasOffGranularityPair(s) == \E i \in 1..(Len(s) - 1) : OffGranularityAt(s, i)
\* the first pair (1-based) that breaks the ordering or the spacing
FirstBadPair(s) ==
    CHOOSE i \in 1..(Len(s) - 1) :
        /\ OffGranularityAt(s, i)
        /\ \A j \in 1..(i - 1) : ~OffGranularityAt(s, j)
StoppedInValidation(s) ==
    /\ pc \in {"start", "validate", "panic"}
    /\ pc = "validate" => index < FirstBadPair(s)
    /\ pc = "panic" => index = FirstBadPair(s) - 1

\* the observations at distance 0, k, 2k, ... from the newest, oldest first
CeilDiv(n, k) == (n + k - 1) \div k
ExpectedResampled(s, k) ==
    LET m == CeilDiv(Len(s), k)
    IN  [i \in 1..m |-> s[Len(s) - (m - i) * k]]

\* annualized growth of one interval, as the aggregation step computes it
Growth(prior, current) ==
    Change(u256_to_f64(current.lst_backing, Units), u256_to_f64(prior.lst_backing, Units),
           Annualizer(WrappingSub(current.timestamp, prior.timestamp)))
RECURSIVE SumGrowth(_, _)
SumGrowth(r, i) ==
    IF i < 2 THEN Zero ELSE F64Add(SumGrowth(r, i - 1), Growth(r[i - 1], r[i]))
\* y is x / k up to the last fixed-point digit: 0 <= x - y * k < k * 10^(-12)
IsQuotient(y, x, k) ==
    LET d == F64Sub(x, F64MulInt(y, k))
    IN  ~y.nan /\ d.hi = 0 /\ d.lo < k
\* |x - y| <= tol
Within(x, y, tol) ==
    LET d == F64Sub(x, y)
    IN  \/ d.hi = 0 /\ d.lo <= tol.lo
        \/ d.hi = -1 /\ Limb - d.lo <= tol.lo
\* expected = 0.2279345389 and the tolerance 0.00000001 of it_should_calculate_backing_avg
ExpectedYield == F64(227934, 538900)
Tolerance == F64(0, 10000)

\* C1: a call whose resampled series has exactly one element (a series of
\* n >= 1 observations with stride >= n) never returns a result.
C1_OnePointNeverReturns ==
    (Len(input) >= 1 /\ skip >= Len(input)) => ~Returned

\* C2: after every aggregation step with a positive time_delta the annualizer
\* is the exact ratio seconds_per_year / time_delta, i.e.
\* annualizer * time_delta = 365 * 86400.
C2_AnnualizerIsExactRatio ==
    (pc \in {"aggregate", "done"} /\ pos >= 2 /\ ~time_delta_seconds.wrapped)
        => annualizer * time_delta_seconds.v = SecondsPerYear

\* C3: when the resampled series has m >= 2 elements the returned base_yield
\* is the sum of the growth of the m - 1 consecutive resampled pairs divided
\* by m - 1, and for the five daily observations of the test with stride 1 it
\* is within 1e-8 of 0.2279345389.
C3_BaseYieldIsMean ==
    (Returned /\ skip >= 1 /\ CeilDiv(Len(input), skip) >= 2)
        => LET r == ExpectedResampled(input, skip)
           IN  /\ IsQuotient(base_yield, SumGrowth(r, Len(r)), Len(r) - 1)
               /\ (input = TestInput /\ skip = 1)
                     => Within(base_yield, ExpectedYield, Tolerance)
C3_Witness ==
    /\ Returned
    /\ input = TestInput
    /\ skip = 1
    /\ Len(resampled) = 5

\* C4: after resampling with stride k >= 1 the resampled series holds exactly
\* the observations whose distance from the newest one is a multiple of k, in
\* chronological order: the newest is last, neighbours are k apart in the
\* input, there are ceil(n / k) of them, and for k = 1 it is the input.
C4_ResampledIsEveryKthFromNewest ==
    Resampled =>
        LET n == Len(input)
            m == Len(resampled)
        IN  /\ skip >= 1
            /\ m = CeilDiv(n, skip)
            /\ resampled = ExpectedResampled(input, skip)
            /\ resampled[m] = input[n]
            /\ \A i \in 1..m : resampled[i] = input[n - (m - i) * skip]
            /\ \A j \in 0..(n - 1) :
                  (\E i \in 1..m : resampled[i] = input[n - j]) <=> (j % skip = 0)
            /\ skip = 1 => resampled = input
C4_Witness ==
    /\ pc = "aggregate"
    /\ skip = 2
    /\ Len(input) = 4
    /\ resampled = <<input[2], input[4]>>

\* C5: a series with a consecutive pair whose block number does not increase
\* never gets past the validation loop: the run stops with a panic at the first
\* offending pair, with "list not sorted" when that pair does not increase.
C5_UnsortedInputPanics ==
    HasUnsortedPair(input) =>
        /\ StoppedInValidation(input)
        /\ (pc = "panic" /\ UnsortedAt(input, FirstBadPair(input)))
              => panic_msg = "list not sorted"
        /\ (pc = "panic" /\ ~UnsortedAt(input, FirstBadPair(input)))
              => panic_msg = "provided data not at correct granularity"
C5_Witness ==
    /\ pc = "panic"
    /\ panic_msg = "list not sorted"
    /\ Len(input) = 4
    /\ UnsortedAt(input, 2)
    /\ input[3].block_number = input[2].block_number
    /\ skip = 2

\* C6: a series with a consecutive pair whose block-number difference is not
\* exactly BLOCK_GRANULARITY never gets past the validation loop: the run stops
\* with a panic at the first such pair, with no tolerance for a difference that
\* is one block short or one block long.
C6_OffGranularityInputPanics ==
    HasOffGranularityPair(input) =>
        /\ StoppedInValidation(input)
        /\ pc = "panic" =>
              panic_msg \in {"list not sorted", "provided data not at correct granularity"}
        /\ (pc = "panic" /\ BlockGap(input, FirstBadPair(input)) > 0)
              => panic_msg = "provided data not at correct granularity"
C6_Witness ==
    /\ pc = "panic"
    /\ panic_msg = "provided data not at correct granularity"
    /\ Len(input) = 4
    /\ BlockGap(input, 1) = BLOCK_GRANULARITY
    /\ BlockGap(input, 2) = BLOCK_GRANULARITY
    /\ BlockGap(input, 3) = BLOCK_GRANULARITY + 1

\* C7: a result is returned only when every consecutive resampled pair has
\* current.timestamp > prior.timestamp.
C7_NonPositiveTimeDeltaNeverReturns ==
    Returned =>
        \A i \in 1..(Len(resampled) - 1) :
            resampled[i + 1].timestamp > resampled[i].timestamp

\* C8: a call with an empty series panics with "input data not long enough"
\* in its first step, before any validation, resampling or aggregation.
C8_EmptyInputPanicsFirst ==
    (input = <<>> /\ pc \notin {"start", "host_start", "host_headers", "host_preflight",
                                "host_exec", "host_err", "host_panic"})
        => /\ pc = "panic"
           /\ panic_msg = "input data not long enough"
           /\ index = 0 /\ pos = 0
           /\ resampled = <<>>
           /\ total = Zero /\ base_yield = Zero
C8_Witness ==
    /\ pc = "panic"
    /\ input = <<>>
    /\ skip = 2
    /\ panic_msg = "input data not long enough"

\* C9: the resampled series is non-empty when the defensive assertion is
\* reached, and "resampled data insufficient" is never raised.
C9_ResampledNeverEmpty ==
    /\ pc = "assert_resampled" => Len(resampled) > 0
    /\ panic_msg # "resampled data insufficient"
C9_Witness ==
    /\ pc = "assert_resampled"
    /\ skip > Len(input)
    /\ Len(resampled) = 1

\* C10: for head_block_num >= BLOCKS_TO_QUERY the block numbers at which the
\* host has built its inputs are non-empty, strictly increasing, exactly
\* BLOCK_GRANULARITY apart, BLOCKS_TO_QUERY / BLOCK_GRANULARITY + 1 = 4 in
\* number, end at head_block_num and lie in the range of fetched headers.
C10_HostBlocksMeetPreconditions ==
    (pc = "host_exec" /\ head_block_num >= BLOCKS_TO_QUERY) =>
        /\ Len(inputs) > 0
        /\ Len(inputs) = (BLOCKS_TO_QUERY \div BLOCK_GRANULARITY) + 1
        /\ Len(inputs) = 4
        /\ inputs[Len(inputs)] = head_block_num
        /\ inputs[1] = head_block_num - BLOCKS_TO_QUERY
        /\ \A i \in 1..(Len(inputs) - 1) :
              /\ inputs[i + 1] > inputs[i]
              /\ inputs[i + 1] - inputs[i] = BLOCK_GRANULARITY
        /\ \A i \in 1..Len(inputs) :
              /\ headers_from_query.first <= inputs[i]
              /\ inputs[i] <= headers_from_query.last
C10_Witness ==
    /\ pc = "host_exec"
    /\ head_block_num = BLOCKS_TO_QUERY + 5
    /\ Len(inputs) = 4
====
